---------------------------- MODULE Spec2Model ----------------------------
(***************************************************************************)
(* Nelder-Mead simplex method (nm.js) and the memoizers                    *)
(* (plain-memorize.js).                                                    *)
(*                                                                         *)
(* Numbers.  The code computes with mathjs on JavaScript numbers.  The     *)
(* model computes the same expressions exactly, on rationals <<n, d>> in   *)
(* lowest terms with d > 0, so a coordinate never depends on the order in  *)
(* which a sum was rounded.  Weights are the integers 0..MaxW; an          *)
(* evaluation that throws (or reports an error) is the outcome Thrown.     *)
(*                                                                         *)
(* Evaluator.  The objective is any deterministic function: `oracle' holds *)
(* the outcome of every vertex value evaluated so far, and a vertex value  *)
(* evaluated for the first time draws any outcome.                         *)
(***************************************************************************)
EXTENDS Integers, Sequences, FiniteSets, TLC

\* ------------------------------------------------------------- bounds
MaxN == 2        \* dimensions 1..MaxN (a simplex has N+1 vertices)
MaxCoord == 1    \* coordinates of an initial vertex: 0..MaxCoord
MaxW == 2        \* weights 0..MaxW
MaxSteps == 2    \* successive steps of the driver / pulls of the generator

\* ---------------------------------------------------------- rationals
Abs(x) == IF x < 0 THEN 0 - x ELSE x

RECURSIVE GCD(_, _)
GCD(x, y) == IF y = 0 THEN x ELSE GCD(y, x % y)

\* n/d in lowest terms, d > 0
Rat(n, d) == LET g == GCD(Abs(n), d) IN <<n \div g, d \div g>>

RAdd(x, y) == Rat(x[1] * y[2] + y[1] * x[2], x[2] * y[2])
RSub(x, y) == Rat(x[1] * y[2] - y[1] * x[2], x[2] * y[2])
RMul(x, y) == Rat(x[1] * y[1], x[2] * y[2])
RDivN(x, k) == Rat(x[1], x[2] * k)

Range(s) == {s[i] : i \in DOMAIN s}

\* ------------------------------------------------------------- mathjs
\* m.add(x, y), m.subtract(x, y) on two arrays; m.multiply(k, x) with a scalar k
add(x, y) == [j \in DOMAIN x |-> RAdd(x[j], y[j])]
subtract(x, y) == [j \in DOMAIN x |-> RSub(x[j], y[j])]
multiply(k, x) == [j \in DOMAIN x |-> RMul(k, x[j])]

RECURSIVE SumCol(_, _, _)
SumCol(vs, j, i) == IF i = 0 THEN Rat(0, 1) ELSE RAdd(SumCol(vs, j, i - 1), vs[i][j])

\* m.mean(vs, 0): the mean along the first axis, one value per coordinate
mean(vs) == [j \in DOMAIN vs[1] |-> RDivN(SumCol(vs, j, Len(vs)), Len(vs))]

\* -------------------------------------------------------------- evaluator
Thrown == 0 - 1
Weights == 0..MaxW
Outcomes == Weights \cup {Thrown}

\* every way the deterministic objective can answer for the points in S, given
\* what it has answered already
Extend(f, S, R) ==
    LET new == S \ DOMAIN f
    IN {[v \in (DOMAIN f) \cup new |-> IF v \in DOMAIN f THEN f[v] ELSE g[v]] :
            g \in [new -> R]}


\* ------------------------------------------------------------ one step
\* a = 1, g = 2, r = 0.5, s = 0.5, the defaults of every variant
DefaultParams == [a |-> Rat(1, 1), g |-> Rat(2, 1), r |-> Rat(1, 2), s |-> Rat(1, 2)]
OtherParams == [a |-> Rat(2, 1), g |-> Rat(3, 1), r |-> Rat(1, 4), s |-> Rat(1, 4)]
ParamChoices == {DefaultParams, OtherParams}

\* vs.slice().sort((a, b) => measure(a) - measure(b)): ascending by weight;
\* vertices of equal weight keep their order (Array.prototype.sort is stable)
RECURSIVE SortByWeight(_, _)
SortByWeight(vs, w) ==
    IF Len(vs) <= 1 THEN vs
    ELSE LET front == SortByWeight(SubSeq(vs, 1, Len(vs) - 1), w)
             v == vs[Len(vs)]
             \* v goes behind every vertex that is not heavier than it
             k == Cardinality({i \in DOMAIN front : w[front[i]] <= w[v]})
         IN SubSeq(front, 1, k) \o <<v>> \o SubSeq(front, k + 1, Len(front))

\* m.mean(vertices.slice(0, -1), 0)
Centroid(sorted) == mean(SubSeq(sorted, 1, Len(sorted) - 1))

\* a slip of sign: the reflection taken towards the worst vertex
MirrorTowardsWorst(centroid, worst, a) ==
    add(centroid, multiply(a, subtract(worst, centroid)))

\* m.add(centroid, m.multiply(a, m.subtract(centroid, worst)))
Mirror(centroid, worst, a) == add(centroid, multiply(a, subtract(centroid, worst)))

\* m.add(centroid, m.multiply(g, m.subtract(mirror, centroid)))
Expansion(centroid, mirror, g) == add(centroid, multiply(g, subtract(mirror, centroid)))

\* a slip of direction: the contraction taken on the side of the mirror
ContractionTowardsMirror(centroid, worst, r) ==
    add(centroid, multiply(r, subtract(centroid, worst)))

\* m.add(centroid, m.multiply(r, m.subtract(worst, centroid)))
Contraction(centroid, worst, r) == add(centroid, multiply(r, subtract(worst, centroid)))

\* a slip of index: vertices.splice(0, 1, v)
ReplaceFirst(sorted, v) == [sorted EXCEPT ![1] = v]

\* vertices.splice(vertices.length - 1, 1, v)
ReplaceWorst(sorted, v) == [sorted EXCEPT ![Len(sorted)] = v]

\* the shrink without its unshift(best)
ShrinkWithoutBest(sorted, s) ==
    [i \in 1..(Len(sorted) - 1) |->
        add(sorted[1], multiply(s, subtract(sorted[i + 1], sorted[1])))]

\* vertices.slice(1).map(v => best + s * (v - best)), then unshift(best)
Shrink(sorted, s) ==
    LET best == sorted[1]
    IN <<best>> \o [i \in 1..(Len(sorted) - 1) |->
                        add(best, multiply(s, subtract(sorted[i + 1], best)))]

\* the upper bound of the test left out
AcceptsMirrorAboveBest(bestWeight, mirrorWeight, worserWeight) == bestWeight <= mirrorWeight

\* the tests of the decision tree, each with a slip of its boundary before it
AcceptsMirrorBelowWorser(bestWeight, mirrorWeight, worserWeight) ==
    bestWeight <= mirrorWeight /\ mirrorWeight < worserWeight

\* bestDisturbance <= mirrorDisturbance && mirrorDisturbance <= worserDisturbance
AcceptsMirror(bestWeight, mirrorWeight, worserWeight) ==
    bestWeight <= mirrorWeight /\ mirrorWeight <= worserWeight

\* an else without its test
TriesExpansionAlways(bestWeight, mirrorWeight) == TRUE

\* mirrorDisturbance < bestDisturbance
TriesExpansion(bestWeight, mirrorWeight) == mirrorWeight < bestWeight

KeepsExpansionOnTie(expansionWeight, mirrorWeight) == expansionWeight <= mirrorWeight

\* expansionDisturbance < mirrorDisturbance
KeepsExpansion(expansionWeight, mirrorWeight) == expansionWeight < mirrorWeight

KeepsContractionOnTie(contractionWeight, worstWeight) == contractionWeight <= worstWeight

\* contractionDisturbance < worstDisturbance
KeepsContraction(contractionWeight, worstWeight) == contractionWeight < worstWeight

\* a simplex of 2 vertices given a worser of its own: the last vertex
WorserApartFromBest(sorted) == sorted[IF Len(sorted) > 2 THEN Len(sorted) - 1 ELSE Len(sorted)]

\* vertices[ vertices.length - 2 ]
WorserOf(sorted) == sorted[Len(sorted) - 1]

NoStep == [status |-> "none", vertices |-> <<>>, branch |-> "none", asked |-> <<>>]
Throws(asked) == [status |-> "thrown", vertices |-> <<>>, branch |-> "none", asked |-> asked]
Returns(vs, branch, asked) ==
    [status |-> "returned", vertices |-> vs, branch |-> branch, asked |-> asked]

\* function nm(vertices, measure, a, g, r, s).  measure is the objective as a
\* function of the vertex value; asked lists, in order, the points measured
\* after the weights of the input vertices
nm(vertices, measure, p) ==
    IF \E i \in DOMAIN vertices : measure[vertices[i]] = Thrown
    THEN Throws(<<>>)
    ELSE
    LET sorted == SortByWeight(vertices, measure)
        best == sorted[1]
        worser == WorserOf(sorted)
        worst == sorted[Len(sorted)]
        centroid == Centroid(sorted)
        mirror == Mirror(centroid, worst, p.a)
        bestWeight == measure[best]
        worserWeight == measure[worser]
        worstWeight == measure[worst]
        mirrorWeight == measure[mirror]
        expansion == Expansion(centroid, mirror, p.g)
        contraction == Contraction(centroid, worst, p.r)
    IN  IF mirrorWeight = Thrown THEN Throws(<<mirror>>)
        ELSE IF AcceptsMirror(bestWeight, mirrorWeight, worserWeight)
        THEN Returns(ReplaceWorst(sorted, mirror), "accept", <<mirror>>)
        ELSE IF TriesExpansion(bestWeight, mirrorWeight)
        THEN IF measure[expansion] = Thrown THEN Throws(<<mirror, expansion>>)
             ELSE IF KeepsExpansion(measure[expansion], mirrorWeight)
             THEN Returns(ReplaceWorst(sorted, expansion), "expansion", <<mirror, expansion>>)
             ELSE Returns(ReplaceWorst(sorted, mirror), "expansionMirror", <<mirror, expansion>>)
        ELSE IF measure[contraction] = Thrown THEN Throws(<<mirror, contraction>>)
             ELSE IF KeepsContraction(measure[contraction], worstWeight)
             THEN Returns(ReplaceWorst(sorted, contraction), "contraction", <<mirror, contraction>>)
             ELSE Returns(Shrink(sorted, p.s), "shrink", <<mirror, contraction>>)

\* the points a step measures besides its input vertices, as far as measure
\* (the outcomes known so far) lets the step run: first the mirror, then the
\* expansion or the contraction
Probes(vertices, measure, p) ==
    IF \E i \in DOMAIN vertices : measure[vertices[i]] = Thrown
    THEN {}
    ELSE LET sorted == SortByWeight(vertices, measure)
             worst == sorted[Len(sorted)]
             centroid == Centroid(sorted)
             mirror == Mirror(centroid, worst, p.a)
         IN IF mirror \notin DOMAIN measure THEN {mirror}
            ELSE IF measure[mirror] = Thrown
                    \/ AcceptsMirror(measure[sorted[1]], measure[mirror],
                                     measure[WorserOf(sorted)])
            THEN {mirror}
            ELSE IF TriesExpansion(measure[sorted[1]], measure[mirror])
            THEN {mirror, Expansion(centroid, mirror, p.g)}
            ELSE {mirror, Contraction(centroid, worst, p.r)}

\* ----------------------------------------------------- synchronous driver
VARIABLES
    params,    \* a, g, r, s of the run
    vertices,  \* the driver's current simplex
    oracle,    \* the objective: outcome of every vertex value measured so far
    steps,     \* calls of nm made so far
    halted,    \* an exception left the driver
    last       \* the last call of nm: its input and what it did

nmVars == <<params, vertices, oracle, steps, halted, last>>

Coords == {Rat(c, 1) : c \in 0..MaxCoord}
Simplices == UNION {[1..(n + 1) -> [1..n -> Coords]] : n \in 1..MaxN}

InitNm ==
    /\ params \in ParamChoices
    /\ vertices \in Simplices
    /\ oracle = <<>>
    /\ steps = 0
    /\ halted = FALSE
    /\ last = [input |-> <<>>, out |-> NoStep]

\* one call nm(vertices, measure, a, g, r, s) against an objective whose
\* outcomes lie in R
Call(R) ==
    \E m1 \in Extend(oracle, Range(vertices), R) :
      \E m2 \in Extend(m1, Probes(vertices, m1, params), R) :
        \E m3 \in Extend(m2, Probes(vertices, m2, params), R) :
          \E out \in {nm(vertices, m3, params)} :
             /\ last' = [input |-> vertices, out |-> out]
             /\ oracle' = m3
             /\ IF out.status = "returned"
                THEN vertices' = out.vertices /\ halted' = FALSE
                ELSE vertices' = vertices /\ halted' = TRUE
             /\ steps' = steps + 1

\* main(): for (...) { vertices = nm(vertices, lose); ... }
NmCall ==
    /\ ~halted /\ steps < MaxSteps
    /\ Call(Weights)
    /\ UNCHANGED params

\* ------------------------------------- a step on the squared distance to 0
\* weight(v) = v[0]^2 for a vertex of one coordinate; the coordinates of the
\* points met here are integers
Square(v) == v[1][1] * v[1][1]

SquareOn(S) == [v \in S |-> Square(v)]

\* simplices of 2 vertices with one even coordinate each, so that the default
\* a, g, r, s lead to integers again
EvenCoords == {Rat(2 * c, 1) : c \in (0 - 5)..5}
EvenSimplices == [1..2 -> [1..1 -> EvenCoords]]

InitSquare ==
    /\ params = DefaultParams
    /\ vertices \in EvenSimplices
    /\ oracle = <<>> /\ steps = 0 /\ halted = FALSE
    /\ last = [input |-> <<>>, out |-> NoStep]

\* vertices = nm( vertices, v => v[0] * v[0] )
SquareStep ==
    /\ steps = 0
    /\ LET m1 == SquareOn(Range(vertices))
           m2 == SquareOn(DOMAIN m1 \cup Probes(vertices, m1, params))
           m3 == SquareOn(DOMAIN m2 \cup Probes(vertices, m2, params))
           out == nm(vertices, m3, params)
       IN /\ last' = [input |-> vertices, out |-> out]
          /\ oracle' = m3
          /\ vertices' = out.vertices
    /\ steps' = 1
    /\ UNCHANGED <<params, halted>>

\* ------------------------------------------- future and callback adapters
VARIABLES
    adapter,   \* "nm", "nmAsync" or "nmCallback": the function invoked on vertices
    pc,        \* where the invocation stands: idle, scoring, mirror, expansion,
               \* contraction, settled
    pending,   \* places of the input vertices whose evaluation is in flight
    weights,   \* the Map of weights, keyed by the vertex (its place in the input)
    len,       \* nmCallback's count of input vertices still to be weighed
    order,     \* the sorted simplex, as places of the input
    mirrorW,   \* the weight of the mirror, kept for the last comparison
    delivered, \* what the caller has received: the return or the exception, the
               \* settlement of the promise, the calls of the completion callback
    reordered, \* history: an evaluation completed before one requested earlier
    requested, \* history: places of the input vertices whose weight was asked for
    asked,     \* history: the points asked for after the input vertices, in order
    joins      \* history: times the step went on from the input weights to the mirror

asyncVars == <<adapter, pc, pending, weights, len, order, mirrorW, delivered, reordered,
               requested, asked, joins>>

\* an error that reaches the caller as if nothing had failed
Swallowed(v) == [error |-> FALSE, vertices |-> <<>>, of |-> <<>>]

\* the error of the evaluation of v, as the caller receives it: thrown, as the
\* reason of the rejection, or as callback( error, null )
Rejected(v) == [error |-> TRUE, vertices |-> <<>>, of |-> v]

\* return vertices, or callback( null, vertices )
Resolved(vs) == [error |-> FALSE, vertices |-> vs, of |-> <<>>]

\* the objective answers o for the vertex value v, as it did before if it did
Answers(v, o) ==
    /\ v \in DOMAIN oracle => o = oracle[v]
    /\ oracle' = [x \in (DOMAIN oracle) \cup {v} |-> IF x = v THEN o ELSE oracle[x]]

\* a slip of the comparator: weights.get(b) - weights.get(a)
RECURSIVE SortIndicesDescending(_, _)
SortIndicesDescending(n, w) ==
    IF n = 0 THEN <<>>
    ELSE LET front == SortIndicesDescending(n - 1, w)
             k == Cardinality({i \in DOMAIN front : w[front[i]] >= w[n]})
         IN SubSeq(front, 1, k) \o <<n>> \o SubSeq(front, k + 1, Len(front))

\* vertices.slice().sort((a, b) => weights.get(a) - weights.get(b)), as the
\* places 1..n of the input in sorted order
RECURSIVE SortIndices(_, _)
SortIndices(n, w) ==
    IF n = 0 THEN <<>>
    ELSE LET front == SortIndices(n - 1, w)
             k == Cardinality({i \in DOMAIN front : w[front[i]] <= w[n]})
         IN SubSeq(front, 1, k) \o <<n>> \o SubSeq(front, k + 1, Len(front))

\* an evaluation at a time: only the first vertex is asked for at the start
RequestedFirst(vs) == {1}

\* vertices.map( async vertex => ... ), vertices.forEach( vertex => ... ): the
\* weight of every input vertex is asked for, none is waited for in between
Requested(vs) == DOMAIN vs

\* the locals of the continuation that runs once every input vertex is weighed
SortedA == [k \in DOMAIN order |-> vertices[order[k]]]
CentroidA == Centroid(SortedA)
WorstA == SortedA[Len(SortedA)]
MirrorA == Mirror(CentroidA, WorstA, params.a)
BestWeightA == weights[order[1]]
WorserWeightA == weights[order[Len(order) - 1]]
WorstWeightA == weights[order[Len(order)]]

\* the mirror of the input once its weights w are complete
MirrorOf(w) ==
    LET ord == SortIndices(Len(vertices), w)
        sorted == [k \in DOMAIN ord |-> vertices[ord[k]]]
    IN Mirror(Centroid(sorted), sorted[Len(sorted)], params.a)

InitIdleAsync ==
    /\ adapter = "none" /\ pc = "idle" /\ pending = {} /\ weights = <<>>
    /\ len = 0 /\ order = <<>> /\ mirrorW = 0 /\ delivered = <<>>
    /\ reordered = FALSE /\ requested = {} /\ asked = <<>> /\ joins = 0

InitAsync ==
    /\ params \in ParamChoices
    /\ vertices \in Simplices
    /\ oracle = <<>> /\ steps = 0 /\ halted = FALSE
    /\ last = [input |-> <<>>, out |-> NoStep]
    /\ adapter \in {"nm", "nmAsync", "nmCallback"}
    /\ pc = "idle" /\ pending = {} /\ weights = <<>>
    /\ len = 0 /\ order = <<>> /\ mirrorW = 0 /\ delivered = <<>>
    /\ reordered = FALSE /\ requested = {} /\ asked = <<>> /\ joins = 0

\* nm is called and runs to its end: it returns the new simplex, or the
\* exception of measure leaves it.  When several input vertices fail, the sort
\* meets one of them first
NmStep ==
    /\ adapter = "nm" /\ pc = "idle"
    /\ \E m1 \in Extend(oracle, Range(vertices), Outcomes) :
        \E m2 \in Extend(m1, Probes(vertices, m1, params), Outcomes) :
          \E m3 \in Extend(m2, Probes(vertices, m2, params), Outcomes) :
            \E out \in {nm(vertices, m3, params)} :
               /\ oracle' = m3
               /\ last' = [input |-> vertices, out |-> out]
               /\ asked' = out.asked
               /\ IF out.status = "returned"
                  THEN delivered' = <<Resolved(out.vertices)>>
                  ELSE IF out.asked # <<>>
                  THEN delivered' = <<Rejected(out.asked[Len(out.asked)])>>
                  ELSE \E v \in {x \in Range(vertices) : m3[x] = Thrown} :
                          delivered' = <<Rejected(v)>>
    /\ pc' = "settled"
    /\ UNCHANGED <<params, vertices, steps, halted, adapter, pending, weights, len, order,
                   mirrorW, reordered, requested, joins>>

\* nmAsync is called: vertices.map(async vertex => ... await measureAsync(vertex))
\* asks for the weight of every input vertex before anything is awaited
AsyncStart ==
    /\ adapter = "nmAsync" /\ pc = "idle"
    /\ pc' = "scoring"
    /\ pending' = Requested(vertices)
    /\ requested' = Requested(vertices)
    /\ UNCHANGED <<nmVars, adapter, weights, len, order, mirrorW, delivered, reordered,
                   asked, joins>>

\* measureAsync(vertices[i]) settles.  A rejection rejects Promise.all and with
\* it nmAsync; the last weight lets nmAsync go on: sort, then ask for the mirror
AsyncScore(i) ==
    /\ adapter = "nmAsync" /\ i \in pending
    /\ pending' = pending \ {i}
    /\ \E o \in Outcomes :
        /\ Answers(vertices[i], o)
        /\ IF o = Thrown
           THEN /\ UNCHANGED <<weights, order, asked, joins>>
                /\ IF pc = "scoring"
                   THEN pc' = "settled" /\ delivered' = <<Rejected(vertices[i])>>
                   ELSE UNCHANGED <<pc, delivered>>
           ELSE LET w == [x \in (DOMAIN weights) \cup {i} |->
                              IF x = i THEN o ELSE weights[x]]
                IN /\ weights' = w
                   /\ delivered' = delivered
                   /\ IF pc = "scoring" /\ pending \ {i} = {}
                      THEN /\ pc' = "mirror"
                           /\ order' = SortIndices(Len(vertices), w)
                           /\ asked' = <<MirrorOf(w)>>
                           /\ joins' = joins + 1
                      ELSE UNCHANGED <<pc, order, asked, joins>>
    /\ reordered' = (reordered \/ \E j \in pending : j < i)
    /\ UNCHANGED <<params, vertices, steps, halted, last, adapter, len, mirrorW, requested>>

\* await measureAsync(mirror) settles
AsyncMirror ==
    /\ adapter = "nmAsync" /\ pc = "mirror"
    /\ \E o \in Outcomes :
        /\ Answers(MirrorA, o)
        /\ mirrorW' = o
        /\ IF o = Thrown
           THEN pc' = "settled" /\ delivered' = <<Rejected(MirrorA)>> /\ asked' = asked
           ELSE IF AcceptsMirror(BestWeightA, o, WorserWeightA)
           THEN /\ pc' = "settled" /\ asked' = asked
                /\ delivered' = <<Resolved(ReplaceWorst(SortedA, MirrorA))>>
           ELSE IF TriesExpansion(BestWeightA, o)
           THEN /\ pc' = "expansion" /\ delivered' = delivered
                /\ asked' = Append(asked, Expansion(CentroidA, MirrorA, params.g))
           ELSE /\ pc' = "contraction" /\ delivered' = delivered
                /\ asked' = Append(asked, Contraction(CentroidA, WorstA, params.r))
    /\ UNCHANGED <<params, vertices, steps, halted, last, adapter, pending, weights,
                   len, order, reordered, requested, joins>>

\* await measureAsync(expansion) settles
AsyncExpansion ==
    /\ adapter = "nmAsync" /\ pc = "expansion"
    /\ LET expansion == Expansion(CentroidA, MirrorA, params.g)
       IN \E o \in Outcomes :
            /\ Answers(expansion, o)
            /\ delivered' =
                 IF o = Thrown THEN <<Rejected(expansion)>>
                 ELSE IF KeepsExpansion(o, mirrorW)
                 THEN <<Resolved(ReplaceWorst(SortedA, expansion))>>
                 ELSE <<Resolved(ReplaceWorst(SortedA, MirrorA))>>
    /\ pc' = "settled"
    /\ UNCHANGED <<params, vertices, steps, halted, last, adapter, pending, weights,
                   len, order, mirrorW, reordered, requested, asked, joins>>

\* await measureAsync(contraction) settles
AsyncContraction ==
    /\ adapter = "nmAsync" /\ pc = "contraction"
    /\ LET contraction == Contraction(CentroidA, WorstA, params.r)
       IN \E o \in Outcomes :
            /\ Answers(contraction, o)
            /\ delivered' =
                 IF o = Thrown THEN <<Rejected(contraction)>>
                 ELSE IF KeepsContraction(o, WorstWeightA)
                 THEN <<Resolved(ReplaceWorst(SortedA, contraction))>>
                 ELSE <<Resolved(Shrink(SortedA, params.s))>>
    /\ pc' = "settled"
    /\ UNCHANGED <<params, vertices, steps, halted, last, adapter, pending, weights,
                   len, order, mirrorW, reordered, requested, asked, joins>>

\* nmCallback is called: vertices.forEach(vertex => measureCallback(vertex, ...))
CbStart ==
    /\ adapter = "nmCallback" /\ pc = "idle"
    /\ pc' = "scoring"
    /\ pending' = Requested(vertices)
    /\ requested' = Requested(vertices)
    /\ len' = Len(vertices)
    /\ UNCHANGED <<nmVars, adapter, weights, order, mirrorW, delivered, reordered,
                   asked, joins>>

\* the callback given to measureCallback(vertices[i], ...) is called: an error
\* goes to the caller's callback; a weight is stored and counted, and the one
\* that brings len to 0 sorts and asks for the mirror
CbScore(i) ==
    /\ adapter = "nmCallback" /\ i \in pending
    /\ pending' = pending \ {i}
    /\ \E o \in Outcomes :
        /\ Answers(vertices[i], o)
        /\ IF o = Thrown
           THEN /\ delivered' = Append(delivered, Rejected(vertices[i]))
                /\ UNCHANGED <<weights, len, order, pc, asked, joins>>
           ELSE LET w == [x \in (DOMAIN weights) \cup {i} |->
                              IF x = i THEN o ELSE weights[x]]
                IN /\ weights' = w
                   /\ len' = len - 1
                   /\ delivered' = delivered
                   /\ IF len - 1 = 0
                      THEN /\ pc' = "mirror"
                           /\ order' = SortIndices(Len(vertices), w)
                           /\ asked' = <<MirrorOf(w)>>
                           /\ joins' = joins + 1
                      ELSE UNCHANGED <<pc, order, asked, joins>>
    /\ reordered' = (reordered \/ \E j \in pending : j < i)
    /\ UNCHANGED <<params, vertices, steps, halted, last, adapter, mirrorW, requested>>

\* the callback given to measureCallback(mirror, ...) is called
CbMirror ==
    /\ adapter = "nmCallback" /\ pc = "mirror"
    /\ \E o \in Outcomes :
        /\ Answers(MirrorA, o)
        /\ mirrorW' = o
        /\ IF o = Thrown
           THEN /\ pc' = "settled" /\ asked' = asked
                /\ delivered' = Append(delivered, Rejected(MirrorA))
           ELSE IF AcceptsMirror(BestWeightA, o, WorserWeightA)
           THEN /\ pc' = "settled" /\ asked' = asked
                /\ delivered' = Append(delivered, Resolved(ReplaceWorst(SortedA, MirrorA)))
           ELSE IF TriesExpansion(BestWeightA, o)
           THEN /\ pc' = "expansion" /\ delivered' = delivered
                /\ asked' = Append(asked, Expansion(CentroidA, MirrorA, params.g))
           ELSE /\ pc' = "contraction" /\ delivered' = delivered
                /\ asked' = Append(asked, Contraction(CentroidA, WorstA, params.r))
    /\ UNCHANGED <<params, vertices, steps, halted, last, adapter, pending, weights,
                   len, order, reordered, requested, joins>>

\* the callback given to measureCallback(expansion, ...) is called
CbExpansion ==
    /\ adapter = "nmCallback" /\ pc = "expansion"
    /\ LET expansion == Expansion(CentroidA, MirrorA, params.g)
       IN \E o \in Outcomes :
            /\ Answers(expansion, o)
            /\ delivered' = Append(delivered,
                 IF o = Thrown THEN Rejected(expansion)
                 ELSE IF KeepsExpansion(o, mirrorW)
                 THEN Resolved(ReplaceWorst(SortedA, expansion))
                 ELSE Resolved(ReplaceWorst(SortedA, MirrorA)))
    /\ pc' = "settled"
    /\ UNCHANGED <<params, vertices, steps, halted, last, adapter, pending, weights,
                   len, order, mirrorW, reordered, requested, asked, joins>>

\* the callback given to measureCallback(contraction, ...) is called
CbContraction ==
    /\ adapter = "nmCallback" /\ pc = "contraction"
    /\ LET contraction == Contraction(CentroidA, WorstA, params.r)
       IN \E o \in Outcomes :
            /\ Answers(contraction, o)
            /\ delivered' = Append(delivered,
                 IF o = Thrown THEN Rejected(contraction)
                 ELSE IF KeepsContraction(o, WorstWeightA)
                 THEN Resolved(ReplaceWorst(SortedA, contraction))
                 ELSE Resolved(Shrink(SortedA, params.s)))
    /\ pc' = "settled"
    /\ UNCHANGED <<params, vertices, steps, halted, last, adapter, pending, weights,
                   len, order, mirrorW, reordered, requested, asked, joins>>

\* --------------------------------------------- the arrays of one call of nm
\* The same call as it acts on the objects: the array the caller passes, the
\* vertices in it, and the arrays and vertices the call makes.
VARIABLES
    vertexHeap,  \* the vertices (arrays of numbers) by address
    arrayHeap,   \* the arrays of vertices by address, as the addresses of their elements
    argument,    \* the address of the array the caller passed
    result,      \* the address of the array returned, 0 when there is none
    atCall       \* history: the two heaps as they were when nm was atCall

heapVars == <<vertexHeap, arrayHeap, argument, result, atCall>>

\* the array is used where it is: no copy is made
sliceInPlace(arrays, at) == [arrays |-> arrays, at |-> at]

\* vertices.slice(): a new array of the same elements
slice(arrays, at) == [arrays |-> Append(arrays, arrays[at]), at |-> Len(arrays) + 1]

\* Array.prototype.sort on the array at an address, by the weights w of its places
sort(arrays, at, w) ==
    LET ord == SortIndices(Len(arrays[at]), w)
    IN [arrays EXCEPT ![at] = [k \in DOMAIN ord |-> arrays[at][ord[k]]]]

\* vertices.splice( vertices.length - 1, 1, v ) on the array at an address
splice(arrays, at, v) == [arrays EXCEPT ![at][Len(arrays[at])] = v]

\* the values of the vertices of the array at an address
ValuesAt(vs, arrays, at) == [i \in DOMAIN arrays[at] |-> vs[arrays[at][i]]]

\* the orders a sort left by an exception of its comparator may leave the array in
Shuffles(refs) ==
    {[i \in DOMAIN refs |-> refs[p[i]]] : p \in Permutations(DOMAIN refs)}

InitIdleHeap ==
    /\ vertexHeap = <<>> /\ arrayHeap = <<>> /\ argument = 0 /\ result = 0
    /\ atCall = [vertices |-> <<>>, arrays |-> <<>>]

\* the caller's array holds the vertices of the simplex, one object each
InitHeap ==
    /\ params \in ParamChoices
    /\ vertices \in Simplices
    /\ oracle = <<>> /\ steps = 0 /\ halted = FALSE
    /\ last = [input |-> <<>>, out |-> NoStep]
    /\ vertexHeap = vertices
    /\ arrayHeap = <<[i \in DOMAIN vertices |-> i]>>
    /\ argument = 1 /\ result = 0
    /\ atCall = [vertices |-> <<>>, arrays |-> <<>>]

\* nm( vertices, measure, a, g, r, s ) runs to its end on the caller's array
HeapStep ==
    /\ steps = 0
    /\ \E m1 \in Extend(oracle, Range(vertices), Outcomes) :
        \E m2 \in Extend(m1, Probes(vertices, m1, params), Outcomes) :
          \E m3 \in Extend(m2, Probes(vertices, m2, params), Outcomes) :
            \E out \in {nm(vertices, m3, params)} :
              /\ last' = [input |-> vertices, out |-> out]
              /\ oracle' = m3
              /\ steps' = 1
              /\ halted' = (out.status = "thrown")
              /\ atCall' = [vertices |-> vertexHeap, arrays |-> arrayHeap]
              /\ LET copy == slice(arrayHeap, argument)
                     at == copy.at
                 IN IF out.status = "thrown" /\ out.asked = <<>>
                    THEN \* measure threw in the comparator of the sort
                         /\ \E refs \in Shuffles(copy.arrays[at]) :
                               arrayHeap' = [copy.arrays EXCEPT ![at] = refs]
                         /\ vertexHeap' = vertexHeap
                         /\ result' = 0
                    ELSE
                    LET w == [i \in DOMAIN copy.arrays[at] |->
                                 m3[vertexHeap[copy.arrays[at][i]]]]
                        sorted == sort(copy.arrays, at, w)
                        values == ValuesAt(vertexHeap, sorted, at)
                        best == sorted[at][1]
                        \* centroid and mirror, then expansion or contraction
                        made == <<Centroid(values)>> \o out.asked
                        vs == vertexHeap \o made
                        mirror == Len(vertexHeap) + 2
                        third == Len(vertexHeap) + 3
                    IN  IF out.status = "thrown"
                        THEN /\ arrayHeap' = sorted /\ vertexHeap' = vs /\ result' = 0
                        ELSE IF out.branch = "shrink"
                        THEN LET shrunk == Shrink(values, params.s)
                                 n == Len(values) - 1
                                 \* vertices.slice( 1 ), then .map( ... ): two new arrays
                                 tail == [i \in 1..n |-> sorted[at][i + 1]]
                                 mapped == [i \in 1..n |-> Len(vs) + i]
                             IN /\ vertexHeap' = vs \o SubSeq(shrunk, 2, n + 1)
                                \* vertices.unshift( best )
                                /\ arrayHeap' = sorted \o <<tail, <<best>> \o mapped>>
                                /\ result' = Len(sorted) + 2
                        ELSE /\ vertexHeap' = vs
                             /\ arrayHeap' = splice(sorted, at,
                                     IF out.branch \in {"accept", "expansionMirror"}
                                     THEN mirror ELSE third)
                             /\ result' = at
    /\ UNCHANGED <<params, vertices, argument>>

\* ------------------------------------------------------------ memoizers
MaxCalls == 3      \* calls of the memoized function in a run
MaxRefresh == 1    \* calls of refresh() in a run

VARIABLES
    variant,   \* "memorize" (direct return) or "nMemorize" (completion callback)
    returns,   \* Map: key -> the invocation of fn whose value is cached
    throws,    \* Map: key -> the invocation of fn whose error is cached
    inflight,  \* nMemorize: invocations of fn that have not called back yet
    log,       \* history: calls, invocations of fn, deliveries, refreshes, in order
    overlap    \* history: arguments called while fn was in flight for them

memoVars == <<variant, returns, throws, inflight, log, overlap>>

\* The argument lists of the model: a one-number vertex each.
Args == {"[1]", "[NaN]", "[Infinity]"}

\* hash = JSON.stringify: a finite number prints as itself, NaN and Infinity
\* both print as null
hash(x) == IF x \in {"[NaN]", "[Infinity]"} THEN "[null]" ELSE x

Event(e, call, x, inv, ok) == [e |-> e, call |-> call, args |-> x, inv |-> inv, ok |-> ok]
Count(e) == Cardinality({k \in DOMAIN log : log[k].e = e})

\* a lookup that never finds the key
MapHasNever(map, key) == FALSE

\* Map.has(key)
MapHas(map, key) == key \in DOMAIN map

\* a result that is handed on but not stored
MapSetNothing(map, key, value) == map

\* a store that forgets the other keys
MapSetAlone(map, key, value) == [k \in {key} |-> value]

\* Map.set(key, value)
MapSet(map, key, value) ==
    [k \in (DOMAIN map) \cup {key} |-> IF k = key THEN value ELSE map[k]]

\* a reset that clears nothing
MapClearNothing(map) == map

\* Map.clear()
MapClear(map) == <<>>

\* a callback that is called twice
CallbackTwice(history, cb, call, x, inv, ok) ==
    history \o <<Event(IF cb THEN "deliver" ELSE "done", call, x, inv, ok),
                 Event(IF cb THEN "deliver" ELSE "done", call, x, inv, ok)>>

\* callback( error, null ) when ok is FALSE, callback( null, ret ) when it is
\* TRUE: the caller's callback is called once ("deliver"), or the callback that
\* does nothing which stands in for it ("done")
Callback(history, cb, call, x, inv, ok) ==
    Append(history, Event(IF cb THEN "deliver" ELSE "done", call, x, inv, ok))

InitIdleMemo ==
    /\ variant = "none" /\ returns = <<>> /\ throws = <<>> /\ inflight = {}
    /\ log = <<>> /\ overlap = {}

InitMemo ==
    /\ variant \in {"memorize", "nMemorize"}
    /\ returns = <<>> /\ throws = <<>> /\ inflight = {}
    /\ log = <<>> /\ overlap = {}

\* memorize(fn): memorized(x).  A cached error is thrown again, a cached value
\* returned; otherwise fn runs, and what it returns or throws is stored first
MemoCall(x) ==
    /\ variant = "memorize" /\ Count("call") < MaxCalls
    /\ LET argsKey == hash(x)
           c == Count("call") + 1
           n == Count("invoke") + 1
           called == Append(log, Event("call", c, x, 0, FALSE))
       IN IF MapHas(throws, argsKey)
          THEN /\ log' = Append(called, Event("deliver", c, x, throws[argsKey], FALSE))
               /\ UNCHANGED <<returns, throws>>
          ELSE IF MapHas(returns, argsKey)
          THEN /\ log' = Append(called, Event("deliver", c, x, returns[argsKey], TRUE))
               /\ UNCHANGED <<returns, throws>>
          ELSE \E ok \in BOOLEAN :
                 /\ log' = called \o <<Event("invoke", c, x, n, FALSE),
                                       Event("deliver", c, x, n, ok)>>
                 /\ IF ok
                    THEN returns' = MapSet(returns, argsKey, n) /\ throws' = throws
                    ELSE throws' = MapSet(throws, argsKey, n) /\ returns' = returns
    /\ UNCHANGED <<variant, inflight, overlap>>

\* memorize(fn): memorized.refresh()
MemoRefresh ==
    /\ variant = "memorize" /\ Count("refresh") < MaxRefresh
    /\ returns' = MapClear(returns)
    /\ log' = Append(log, Event("refresh", 0, "", 0, FALSE))
    /\ UNCHANGED <<variant, throws, inflight, overlap>>

\* nMemorize(fn): memorized(x, callback), or memorized(x) when cb is FALSE: the
\* last argument is taken off as the callback if it is a function, and a
\* callback that does nothing stands in if it is not.  A cached error or value
\* goes to the callback at once; otherwise fn is started with a callback of the
\* memoizer's own
NCall(x, cb) ==
    /\ variant = "nMemorize" /\ Count("call") < MaxCalls
    /\ LET argsKey == hash(x)
           c == Count("call") + 1
           n == Count("invoke") + 1
           called == Append(log, Event("call", c, x, 0, cb))
       IN IF MapHas(throws, argsKey)
          THEN /\ log' = Callback(called, cb, c, x, throws[argsKey], FALSE)
               /\ UNCHANGED <<inflight, overlap>>
          ELSE IF MapHas(returns, argsKey)
          THEN /\ log' = Callback(called, cb, c, x, returns[argsKey], TRUE)
               /\ UNCHANGED <<inflight, overlap>>
          ELSE /\ log' = Append(called, Event("invoke", c, x, n, FALSE))
               /\ inflight' = inflight \cup {[inv |-> n, call |-> c, args |-> x, cb |-> cb]}
               /\ overlap' = IF \E f \in inflight : f.args = x
                             THEN overlap \cup {x} ELSE overlap
    /\ UNCHANGED <<variant, returns, throws>>

\* fn calls the callback the memoizer gave it: the error or the value is stored
\* under the key of the call, then handed to the caller's callback
NComplete(f) ==
    /\ variant = "nMemorize" /\ f \in inflight
    /\ inflight' = inflight \ {f}
    /\ \E ok \in BOOLEAN :
         /\ log' = Callback(log, f.cb, f.call, f.args, f.inv, ok)
         /\ IF ok
            THEN returns' = MapSet(returns, hash(f.args), f.inv) /\ throws' = throws
            ELSE throws' = MapSet(throws, hash(f.args), f.inv) /\ returns' = returns
    /\ UNCHANGED <<variant, overlap>>

\* nMemorize(fn): memorized.refresh()
NRefresh ==
    /\ variant = "nMemorize" /\ Count("refresh") < MaxRefresh
    /\ returns' = MapClear(returns)
    /\ throws' = MapClear(throws)
    /\ log' = Append(log, Event("refresh", 0, "", 0, FALSE))
    /\ UNCHANGED <<variant, inflight, overlap>>

\* ----------------------------------------- the driver's memoized objective
\* main() drives nm with lose = memorize( vertex => ... ): every weight nm asks
\* for goes through memorized, whose Maps live as long as the run.

\* JSON.stringify of the arguments, a vertex of finite numbers: every number
\* prints in one way, so that equal vertices, and only they, print alike
stringify(v) == [i \in DOMAIN v |-> Rat(v[i][1], v[i][2])]

\* memorized( v ) with the Maps and the log of c, fn being the objective: the
\* Maps and the log after the call, and what leaves it (ok: a return)
memorized(c, v, fn, step) ==
    LET argsKey == stringify(v)
        n == Len(c.log) + 1
    IN IF MapHas(c.throws, argsKey)
       THEN [cache |-> c, ok |-> FALSE, ret |-> c.throws[argsKey]]
       ELSE IF MapHas(c.returns, argsKey)
       THEN [cache |-> c, ok |-> TRUE, ret |-> c.returns[argsKey]]
       ELSE IF fn[v] = Thrown
       THEN [cache |-> [returns |-> c.returns,
                        throws |-> MapSet(c.throws, argsKey, Thrown),
                        log |-> Append(c.log, Event("invoke", step, v, n, FALSE))],
             ok |-> FALSE, ret |-> Thrown]
       ELSE [cache |-> [returns |-> MapSet(c.returns, argsKey, fn[v]),
                        throws |-> c.throws,
                        log |-> Append(c.log, Event("invoke", step, v, n, TRUE))],
             ok |-> TRUE, ret |-> fn[v]]

\* the calls of memorized that nm makes one after the other, up to the first
\* that throws
RECURSIVE Serve(_, _, _, _)
Serve(asks, c, fn, step) ==
    IF asks = <<>> THEN c
    ELSE LET r == memorized(c, Head(asks), fn, step)
         IN IF r.ok THEN Serve(Tail(asks), r.cache, fn, step) ELSE r.cache

\* ( a, b ) => measure( a ) - measure( b ) on the pairs the sort compares: which
\* pairs, and in which order, is the engine's choice; here all of them, in the
\* order of the array (the choice changes which weight is asked for first and
\* how often, not which weights are asked for)
RECURSIVE PairAsks(_)
PairAsks(vs) ==
    IF Len(vs) < 2 THEN <<>>
    ELSE LET rest == PairAsks(Tail(vs))
             RECURSIVE With(_)
             With(j) == IF j > Len(vs) THEN <<>> ELSE <<vs[1], vs[j]>> \o With(j + 1)
         IN With(2) \o rest

\* the points nm asks measure for, in order: in the sort, then best, worser and
\* worst once more, then the mirror and what follows it
AsksOf(vs, fn, p) ==
    LET sorted == SortByWeight(vs, fn)
    IN PairAsks(vs)
         \o <<sorted[1], WorserOf(sorted), sorted[Len(sorted)]>>
         \o nm(vs, fn, p).asked

InitMemoDrive ==
    /\ params = DefaultParams
    /\ vertices \in Simplices
    /\ oracle = <<>> /\ steps = 0 /\ halted = FALSE
    /\ last = [input |-> <<>>, out |-> NoStep]
    /\ variant = "memorize"
    /\ returns = <<>> /\ throws = <<>> /\ inflight = {}
    /\ log = <<>> /\ overlap = {}

\* main(): vertices = nm( vertices, lose ), lose memoized
MemoDrive ==
    /\ ~halted /\ steps < MaxSteps
    /\ \E m1 \in Extend(oracle, Range(vertices), Outcomes) :
        \E m2 \in Extend(m1, Probes(vertices, m1, params), Outcomes) :
          \E m3 \in Extend(m2, Probes(vertices, m2, params), Outcomes) :
            \E out \in {nm(vertices, m3, params)} :
                LET c == Serve(AsksOf(vertices, m3, params),
                               [returns |-> returns, throws |-> throws, log |-> log],
                               m3, steps + 1)
                IN /\ returns' = c.returns /\ throws' = c.throws /\ log' = c.log
                   /\ last' = [input |-> vertices, out |-> out]
                   /\ oracle' = m3
                   /\ IF out.status = "returned"
                      THEN vertices' = out.vertices /\ halted' = FALSE
                      ELSE vertices' = vertices /\ halted' = TRUE
                   /\ steps' = steps + 1
    /\ UNCHANGED <<params, variant, inflight, overlap>>

\* ------------------------------------------------------------ generators
VARIABLES
    gen,       \* "nmGen" or "nmAsyncGen": the generator the consumer pulls from
    genState,  \* suspended (at its start or at the yield), awaiting (nmAsync),
               \* completed
    pulls,     \* history: what each next() gave the consumer
    start      \* history: the simplex the generator was created with

genVars == <<gen, genState, pulls, start>>

\* { value: vertices, done: false }
Yielded(vs) == [done |-> FALSE, thrown |-> FALSE, value |-> vs]
\* the exception (the rejection) that leaves next()
Threw == [done |-> FALSE, thrown |-> TRUE, value |-> <<>>]
\* { value: undefined, done: true }
Finished == [done |-> TRUE, thrown |-> FALSE, value |-> <<>>]

\* a loop that ends after its first round
LoopEndsAfterFirst(rounds) == rounds < 1

\* for ( ; ; ): no condition ends the loop
LoopGoesOn(rounds) == TRUE

\* the result is yielded but not kept for the next round
NotAssigned(old, new) == old

\* vertices = nm( vertices, measure, a, g, r, s )
Assigned(old, new) == new

InitIdleGen == gen = "none" /\ genState = "completed" /\ pulls = <<>> /\ start = <<>>

\* the generators are called as the driver calls them, with the default a, g, r, s
InitGen ==
    /\ params = DefaultParams
    /\ vertices \in Simplices
    /\ oracle = <<>> /\ steps = 0 /\ halted = FALSE
    /\ last = [input |-> <<>>, out |-> NoStep]
    /\ gen \in {"nmGen", "nmAsyncGen"}
    /\ genState = "suspended" /\ pulls = <<>> /\ start = vertices

\* the body of the loop runs once: the step is made on the generator's vertices
\* and its result assigned to them and yielded; an exception (a rejection)
\* leaves the generator, which is completed by it
Round ==
    \E m1 \in Extend(oracle, Range(vertices), Outcomes) :
      \E m2 \in Extend(m1, Probes(vertices, m1, params), Outcomes) :
        \E m3 \in Extend(m2, Probes(vertices, m2, params), Outcomes) :
          \E out \in {nm(vertices, m3, params)} :
             /\ last' = [input |-> vertices, out |-> out]
             /\ oracle' = m3
             /\ steps' = steps + 1
             /\ IF out.status = "returned"
                THEN /\ vertices' = Assigned(vertices, out.vertices)
                     /\ halted' = FALSE
                     /\ pulls' = Append(pulls, Yielded(out.vertices))
                     /\ genState' = "suspended"
                ELSE /\ vertices' = vertices
                     /\ halted' = TRUE
                     /\ pulls' = Append(pulls, Threw)
                     /\ genState' = "completed"

\* nmGen: the consumer calls next()
GenNext ==
    /\ gen = "nmGen" /\ Len(pulls) < MaxSteps
    /\ IF genState = "completed" \/ ~LoopGoesOn(steps)
       THEN /\ pulls' = Append(pulls, Finished)
            /\ genState' = "completed"
            /\ UNCHANGED <<vertices, oracle, steps, halted, last>>
       ELSE Round
    /\ UNCHANGED <<params, gen, start>>

\* nmAsyncGen: the consumer calls next() and awaits its promise; the generator
\* calls nmAsync and awaits it
AsyncGenNext ==
    /\ gen = "nmAsyncGen" /\ Len(pulls) < MaxSteps /\ genState # "awaiting"
    /\ IF genState = "completed" \/ ~LoopGoesOn(steps)
       THEN /\ pulls' = Append(pulls, Finished)
            /\ genState' = "completed"
       ELSE /\ pulls' = pulls
            /\ genState' = "awaiting"
    /\ UNCHANGED <<nmVars, gen, start>>

\* nmAsyncGen: the promise of nmAsync settles, with the simplex or the rejection
\* that one invocation of nmAsync ends with (AsyncSpec), which are those of nm
AsyncGenSettle ==
    /\ gen = "nmAsyncGen" /\ genState = "awaiting"
    /\ Round
    /\ UNCHANGED <<params, gen, start>>

\* ------------------------------------------------------- specifications
vars == <<nmVars, asyncVars, memoVars, genVars, heapVars>>

Init == InitNm /\ InitIdleAsync /\ InitIdleMemo /\ InitIdleGen /\ InitIdleHeap

Next == NmCall /\ UNCHANGED <<asyncVars, memoVars, genVars, heapVars>>

\* the synchronous step, driven by main()
Spec == Init /\ [][Next]_vars

NextAsync ==
    \/ NmStep /\ UNCHANGED <<memoVars, genVars, heapVars>>
    \/ AsyncStart /\ UNCHANGED <<memoVars, genVars, heapVars>>
    \/ \E i \in DOMAIN vertices : AsyncScore(i) /\ UNCHANGED <<memoVars, genVars, heapVars>>
    \/ AsyncMirror /\ UNCHANGED <<memoVars, genVars, heapVars>>
    \/ AsyncExpansion /\ UNCHANGED <<memoVars, genVars, heapVars>>
    \/ AsyncContraction /\ UNCHANGED <<memoVars, genVars, heapVars>>
    \/ CbStart /\ UNCHANGED <<memoVars, genVars, heapVars>>
    \/ \E i \in DOMAIN vertices : CbScore(i) /\ UNCHANGED <<memoVars, genVars, heapVars>>
    \/ CbMirror /\ UNCHANGED <<memoVars, genVars, heapVars>>
    \/ CbExpansion /\ UNCHANGED <<memoVars, genVars, heapVars>>
    \/ CbContraction /\ UNCHANGED <<memoVars, genVars, heapVars>>

\* one invocation of nm, of nmAsync or of nmCallback
InitAsyncRun == InitAsync /\ InitIdleMemo /\ InitIdleGen /\ InitIdleHeap

AsyncSpec == InitAsyncRun /\ [][NextAsync]_vars

\* a run of a memoized function: the state of the simplex plays no part
InitMemoRun ==
    /\ params = DefaultParams /\ vertices = <<>> /\ oracle = <<>> /\ steps = 0
    /\ halted = FALSE /\ last = [input |-> <<>>, out |-> NoStep]
    /\ InitIdleAsync
    /\ InitMemo
    /\ InitIdleGen
    /\ InitIdleHeap

NextMemo ==
    \/ \E x \in Args : MemoCall(x) /\ UNCHANGED <<nmVars, asyncVars, genVars, heapVars>>
    \/ MemoRefresh /\ UNCHANGED <<nmVars, asyncVars, genVars, heapVars>>
    \/ \E x \in Args, cb \in BOOLEAN : NCall(x, cb) /\ UNCHANGED <<nmVars, asyncVars, genVars, heapVars>>
    \/ \E f \in inflight : NComplete(f) /\ UNCHANGED <<nmVars, asyncVars, genVars, heapVars>>
    \/ NRefresh /\ UNCHANGED <<nmVars, asyncVars, genVars, heapVars>>

MemoSpec == InitMemoRun /\ [][NextMemo]_vars

\* a consumer pulling from nmGen or from nmAsyncGen
InitGenRun == InitGen /\ InitIdleAsync /\ InitIdleMemo /\ InitIdleHeap

NextGen ==
    \/ GenNext /\ UNCHANGED <<asyncVars, memoVars, heapVars>>
    \/ AsyncGenNext /\ UNCHANGED <<asyncVars, memoVars, heapVars>>
    \/ AsyncGenSettle /\ UNCHANGED <<asyncVars, memoVars, heapVars>>

GenSpec == InitGenRun /\ [][NextGen]_vars

\* one step on the squared distance to 0
InitSquareRun == InitSquare /\ InitIdleAsync /\ InitIdleMemo /\ InitIdleGen /\ InitIdleHeap

NextSquare == SquareStep /\ UNCHANGED <<asyncVars, memoVars, genVars, heapVars>>

SquareSpec == InitSquareRun /\ [][NextSquare]_vars

\* fn is a node-style function: it calls the callback it was given, once
FnCallsBack == \E f \in inflight : NComplete(f) /\ UNCHANGED <<nmVars, asyncVars, genVars, heapVars>>

MemoLiveSpec == InitMemoRun /\ [][NextMemo]_vars /\ WF_vars(FnCallsBack)

\* one call of nm, on the objects
InitHeapRun == InitHeap /\ InitIdleAsync /\ InitIdleMemo /\ InitIdleGen

NextHeap == HeapStep /\ UNCHANGED <<asyncVars, memoVars, genVars>>

HeapSpec == InitHeapRun /\ [][NextHeap]_vars

\* the driver with its memoized objective
InitMemoDriveRun == InitMemoDrive /\ InitIdleAsync /\ InitIdleGen /\ InitIdleHeap

NextMemoDrive == MemoDrive /\ UNCHANGED <<asyncVars, genVars, heapVars>>

MemoDriveSpec == InitMemoDriveRun /\ [][NextMemoDrive]_vars

\* ------------------------------------------------- properties of one step
\* What the properties expect, stated from the rule of the method and not
\* through the operators of the step.
RECURSIVE SumFrom(_, _, _)
SumFrom(s, j, i) == IF i > Len(s) THEN Rat(0, 1) ELSE RAdd(s[i][j], SumFrom(s, j, i + 1))

\* the mean of the vertices of s
MeanOf(s) == [j \in 1..Len(s[1]) |-> RMul(Rat(1, Len(s)), SumFrom(s, j, 1))]

\* x + k * (y - z), coordinate by coordinate
Along(x, k, y, z) == [j \in 1..Len(x) |-> RAdd(x[j], RMul(k, RSub(y[j], z[j])))]

Stepped == last.out.status = "returned"
SortedIn == SortByWeight(last.input, oracle)
Size == Len(last.input)
BestIn == SortedIn[1]
WorserIn == SortedIn[Size - 1]
WorstIn == SortedIn[Size]
CentroidIn == MeanOf(SubSeq(SortedIn, 1, Size - 1))
MirrorIn == Along(CentroidIn, params.a, CentroidIn, WorstIn)
ExpansionIn == Along(CentroidIn, params.g, MirrorIn, CentroidIn)
ContractionIn == Along(CentroidIn, params.r, WorstIn, CentroidIn)
ShrunkIn == [i \in 1..Size |->
               IF i = 1 THEN BestIn ELSE Along(BestIn, params.s, SortedIn[i], BestIn)]
WithWorst(v) == [i \in 1..Size |-> IF i = Size THEN v ELSE SortedIn[i]]
Weighed(v) == v \in DOMAIN oracle

\* C1: when weight(best) <= weight(mirror) <= weight(worser), both bounds
\* inclusive, the step returns the sorted input with only the worst vertex
\* replaced by mirror = centroid + alpha * (centroid - worst), and measures
\* neither the expansion nor the contraction.
C1_AcceptReplacesWorstByMirror ==
    Stepped =>
        /\ Weighed(MirrorIn)
        /\ (oracle[BestIn] <= oracle[MirrorIn] /\ oracle[MirrorIn] <= oracle[WorserIn])
              => /\ last.out.vertices = WithWorst(MirrorIn)
                 /\ last.out.asked = <<MirrorIn>>

\* a simplex of 3 vertices whose mirror ties with worser and is accepted
C1_Witness ==
    /\ Stepped /\ Size = 3 /\ Weighed(MirrorIn)
    /\ oracle[BestIn] < oracle[MirrorIn] /\ oracle[MirrorIn] = oracle[WorserIn]
    /\ oracle[WorserIn] < oracle[WorstIn]
    /\ MirrorIn # WorstIn
    /\ last.out.vertices = WithWorst(MirrorIn)

\* C2: when weight(mirror) < weight(best), the step measures the mirror and then
\* expansion = centroid + gamma * (mirror - centroid), and replaces the worst
\* vertex by the expansion if weight(expansion) < weight(mirror), otherwise
\* (equal weights included) by the mirror; no other vertex changes and the
\* contraction is not measured.
C2_ExpansionBranch ==
    Stepped =>
        /\ Weighed(MirrorIn)
        /\ oracle[MirrorIn] < oracle[BestIn]
              => /\ last.out.asked = <<MirrorIn, ExpansionIn>>
                 /\ Weighed(ExpansionIn)
                 /\ last.out.vertices =
                       WithWorst(IF oracle[ExpansionIn] < oracle[MirrorIn]
                                 THEN ExpansionIn ELSE MirrorIn)

\* an expansion that ties with the mirror: the mirror is kept
C2_Witness ==
    /\ Stepped /\ Size = 3 /\ Weighed(MirrorIn) /\ Weighed(ExpansionIn)
    /\ oracle[MirrorIn] < oracle[BestIn]
    /\ oracle[ExpansionIn] = oracle[MirrorIn]
    /\ ExpansionIn # MirrorIn
    /\ last.out.asked = <<MirrorIn, ExpansionIn>>
    /\ last.out.vertices = WithWorst(MirrorIn)

\* C3: when neither the mirror is accepted nor the expansion tried, the step
\* measures contraction = centroid + rho * (worst - centroid) and nothing after
\* it; if weight(contraction) < weight(worst) only the worst vertex is replaced,
\* by the contraction; otherwise the result is best followed by
\* best + sigma * (v - best) for every other vertex v.
C3_ContractionOrShrink ==
    Stepped =>
        /\ Weighed(MirrorIn)
        /\ (/\ ~(oracle[BestIn] <= oracle[MirrorIn] /\ oracle[MirrorIn] <= oracle[WorserIn])
            /\ ~(oracle[MirrorIn] < oracle[BestIn]))
              => /\ last.out.asked = <<MirrorIn, ContractionIn>>
                 /\ Weighed(ContractionIn)
                 /\ last.out.vertices =
                       IF oracle[ContractionIn] < oracle[WorstIn]
                       THEN WithWorst(ContractionIn) ELSE ShrunkIn

\* a shrink of 3 distinct vertices, the contraction tying with the worst
C3_Witness ==
    /\ Stepped /\ Size = 3 /\ Weighed(MirrorIn) /\ Weighed(ContractionIn)
    /\ oracle[MirrorIn] > oracle[WorserIn]
    /\ oracle[ContractionIn] = oracle[WorstIn]
    /\ Cardinality(Range(last.input)) = 3
    /\ last.out.vertices = ShrunkIn
    /\ last.out.vertices # SortedIn

ContractionAsked == Len(last.out.asked) = 2 /\ last.out.branch \in {"contraction", "shrink"}

\* C4 as claimed: the contraction is measured if and only if
\* weight(mirror) >= weight(worser), the tie weight(mirror) = weight(worser)
\* included.
C4_ContractionIffNotBelowWorser ==
    Stepped =>
        /\ Weighed(MirrorIn)
        /\ ContractionAsked <=> oracle[MirrorIn] >= oracle[WorserIn]

\* C4 as the code has it: the contraction is measured if and only if
\* weight(mirror) > weight(worser); a mirror that ties with worser (and is not
\* below best) is accepted and the contraction is not measured.
C4_ContractionIffAboveWorser ==
    Stepped =>
        /\ Weighed(MirrorIn)
        /\ ContractionAsked <=> oracle[MirrorIn] > oracle[WorserIn]

\* the tie: the mirror weighs what worser weighs, and no contraction is measured
C4_Witness ==
    /\ Stepped /\ Size = 3 /\ Weighed(MirrorIn)
    /\ oracle[MirrorIn] = oracle[WorserIn]
    /\ oracle[BestIn] < oracle[WorserIn]
    /\ ~ContractionAsked
    /\ last.out.asked = <<MirrorIn>>

\* C5: a step that returns returns as many vertices as it was given, so the
\* driver's simplex has N+1 vertices (N the dimension of its vertices) after any
\* number of steps.
C5_SizeKept ==
    /\ Stepped => Len(last.out.vertices) = Size
    /\ Len(vertices) = Len(vertices[1]) + 1
    /\ \A i \in DOMAIN vertices : Len(vertices[i]) = Len(vertices[1])

\* a shrink as the second step of a run in 2 dimensions
C5_Witness ==
    /\ steps = 2 /\ Stepped /\ last.out.branch = "shrink"
    /\ Len(vertices) = 3 /\ vertices = last.out.vertices
    /\ Cardinality(Range(vertices)) = 3

\* C6: the best vertex of the input is a vertex of the result: the accept,
\* expansion and contraction branches change only the last (worst) place, and
\* the shrink keeps best, unchanged, in the first place.
C6_BestKept ==
    Stepped =>
        /\ \E i \in 1..Len(last.out.vertices) : last.out.vertices[i] = BestIn
        /\ last.out.branch # "shrink" =>
              \A i \in 1..(Size - 1) : last.out.vertices[i] = SortedIn[i]
        /\ last.out.branch = "shrink" => last.out.vertices[1] = BestIn

\* a step on 2 vertices of different values, the best of strictly lower weight
C6_Witness ==
    /\ Stepped /\ Size = 2 /\ BestIn # WorstIn
    /\ oracle[BestIn] < oracle[WorstIn]
    /\ last.input[2] = BestIn
    /\ last.out.branch = "contraction"
    /\ last.out.vertices[1] = BestIn

\* the second point the last step asked for, if it asked for one
SecondAsked(v) == Len(last.out.asked) = 2 /\ last.out.asked[2] = v

\* C23: a step on 2 vertices has worser = best, and goes by the weight of the
\* mirror against the weight of best alone: equal, the mirror is accepted;
\* below, the expansion is tried; above, the contraction is tried.
C23_TwoVerticesBranches ==
    (/\ Size = 2
     /\ \A i \in 1..2 : Weighed(last.input[i]) /\ oracle[last.input[i]] # Thrown
     /\ Weighed(MirrorIn) /\ oracle[MirrorIn] # Thrown)
    => /\ WorserIn = BestIn
       /\ last.out.branch = "accept" <=> oracle[MirrorIn] = oracle[BestIn]
       /\ last.out.branch = "accept" => last.out.vertices = WithWorst(MirrorIn)
       /\ SecondAsked(ExpansionIn) <=> oracle[MirrorIn] < oracle[BestIn]
       /\ SecondAsked(ContractionIn) <=> oracle[MirrorIn] > oracle[BestIn]

\* a step on 2 vertices of different weights accepts a mirror as light as best
C23_Witness ==
    /\ Size = 2 /\ Stepped /\ last.out.branch = "accept"
    /\ oracle[BestIn] < oracle[WorstIn]
    /\ oracle[MirrorIn] = oracle[BestIn]

\* the least of the weights m gives the vertices of vs
MinWeight(vs, m) ==
    CHOOSE w \in {m[vs[i]] : i \in DOMAIN vs} : \A i \in DOMAIN vs : w <= m[vs[i]]

\* the step that is made is not the first of the run
LaterStep == steps >= 1 /\ steps' = steps + 1

\* C25: the least weight of the simplex a step is given is never above the
\* least weight of the simplex the step before was given, and a step that
\* returns always returns a vertex as light as the best it was given; when it
\* replaces the worst vertex, the vertex put in its place weighs no more than
\* the worst.
C25_MinimumNeverIncreases ==
    /\ [](Stepped =>
            /\ \E i \in DOMAIN last.out.vertices :
                  /\ Weighed(last.out.vertices[i])
                  /\ oracle[last.out.vertices[i]] <= oracle[BestIn]
            /\ last.out.branch # "shrink" =>
                  /\ Weighed(last.out.vertices[Size])
                  /\ oracle[last.out.vertices[Size]] <= oracle[WorstIn])
    /\ [][LaterStep =>
            MinWeight(last'.input, oracle') <= MinWeight(last.input, oracle')]_vars

\* the second step of a run expands: its result has a vertex lighter than any
\* the step was given
C25_Witness ==
    /\ steps = 2 /\ Stepped /\ last.out.branch = "expansion"
    /\ oracle[last.out.vertices[Size]] < oracle[BestIn]

\* ------------------------------------ properties of the asynchronous steps
\* the synchronous step is determined by what the objective has answered
SyncDetermined ==
    /\ Range(vertices) \subseteq DOMAIN oracle
    /\ \A v \in Range(vertices) : oracle[v] # Thrown
    /\ Probes(vertices, oracle, params) \subseteq DOMAIN oracle

\* C7: a simplex delivered by nmAsync or by nmCallback is, vertex for vertex and in
\* the same order, the simplex nm returns for the same input, parameters and
\* objective, in whatever order the weights of the input vertices arrived.
C7_AsyncEqualsSync ==
    \A k \in DOMAIN delivered :
        ~delivered[k].error =>
            /\ SyncDetermined
            /\ nm(vertices, oracle, params).status = "returned"
            /\ delivered[k].vertices = nm(vertices, oracle, params).vertices

\* nmCallback delivers a simplex of 3 vertices, two of them of equal weight, whose
\* weights did not arrive in the order they were asked for
C7_Witness ==
    /\ adapter = "nmCallback" /\ pc = "settled" /\ reordered
    /\ Len(vertices) = 3
    /\ Len(delivered) = 1 /\ ~delivered[1].error
    /\ weights[1] = weights[2] /\ vertices[1] # vertices[2]
    /\ delivered[1].vertices # vertices

\* ------------------------------------------------ properties of the memoizers
Invocations(x) == Cardinality({k \in DOMAIN log : log[k].e = "invoke" /\ log[k].args = x})
CallsOf(x) == Cardinality({k \in DOMAIN log : log[k].e = "call" /\ log[k].args = x})

\* C9 as claimed: with no refresh, all the calls made with the same arguments
\* invoke fn at most once in total, also when a call is made before the result
\* of an earlier one has been delivered.
C9_AtMostOneInvocation ==
    Count("refresh") = 0 => \A x \in Args : Invocations(x) <= 1

\* C9 as the code has it: with no refresh, all the calls made with the same
\* arguments invoke fn at most once in total, unless one of them was made
\* (through nMemorize) while fn was still in flight for these arguments.
C9_AtMostOneInvocationUnlessInFlight ==
    Count("refresh") = 0 =>
        \A x \in Args : x \notin overlap => Invocations(x) <= 1

\* nMemorize: two calls with the same arguments, the second after the first was
\* answered, and a single invocation of fn
C9_Witness ==
    /\ variant = "nMemorize" /\ Count("refresh") = 0 /\ inflight = {}
    /\ \E x \in Args :
         /\ CallsOf(x) = 2 /\ x \notin overlap /\ Invocations(x) = 1
         /\ \E k \in DOMAIN log : log[k].e = "deliver" /\ log[k].call = 2 /\ log[k].args = x

\* C10: after refresh(), the next call with arguments whose earlier call had
\* been answered (with a value or with an error) invokes fn again.
C10_RefreshForcesInvocation ==
    \A p \in DOMAIN log :
        (/\ log[p].e = "call"
         /\ \E r \in 1..(p - 1) :
              /\ log[r].e = "refresh"
              /\ \E q \in 1..(r - 1) :
                    log[q].e \in {"deliver", "done"} /\ log[q].args = log[p].args
              /\ \A q \in (r + 1)..(p - 1) :
                    ~(log[q].e = "call" /\ log[q].args = log[p].args))
        => \E k \in DOMAIN log : log[k].e = "invoke" /\ log[k].call = log[p].call

\* fn itself failed: the call that invoked it was answered with the error
Failed(q) ==
    /\ log[q].e \in {"deliver", "done"} /\ ~log[q].ok
    /\ \E k \in 1..(q - 1) :
          log[k].e = "invoke" /\ log[k].inv = log[q].inv /\ log[k].call = log[q].call

\* the call logged at p invoked fn
InvokedBy(p) == \E k \in DOMAIN log : log[k].e = "invoke" /\ log[k].call = log[p].call

\* what the call logged at p was answered with
AnswersTo(p) ==
    {k \in DOMAIN log : log[k].e \in {"deliver", "done"} /\ log[k].call = log[p].call}

\* a call with the arguments of the failure at q, made after it
CalledAgain(q, p) ==
    q < p /\ Failed(q) /\ log[p].e = "call" /\ log[p].args = log[q].args

\* the last failure of fn before p under the key of x
LatestFailure(x, p) ==
    LET fs == {k \in 1..(p - 1) : Failed(k) /\ hash(log[k].args) = hash(x)}
    IN CHOOSE k \in fs : \A j \in fs : j <= k

\* C11 as claimed: once fn has failed for arguments X, every later call with X
\* is answered with that same failure and does not invoke fn.
C11_FailureReplayedForEver ==
    \A q \in DOMAIN log : \A p \in DOMAIN log :
        CalledAgain(q, p) =>
            /\ ~InvokedBy(p)
            /\ \A k \in AnswersTo(p) : ~log[k].ok /\ log[k].inv = log[q].inv

\* C11 as the code has it: once fn has failed for arguments X, every later call
\* with X -- for nMemorize: made before the next refresh() -- does not invoke fn
\* and is answered with the failure last stored under the key of X; that is the
\* first failure unless fn was in flight more than once for the key.
C11_FailureReplayedUntilReset ==
    \A q \in DOMAIN log : \A p \in DOMAIN log :
        (/\ CalledAgain(q, p)
         /\ variant = "nMemorize" =>
                \A r \in (q + 1)..(p - 1) : log[r].e # "refresh")
        => /\ ~InvokedBy(p)
           /\ \A k \in AnswersTo(p) :
                 ~log[k].ok /\ log[k].inv = log[LatestFailure(log[p].args, p)].inv

\* nMemorize: fn fails for X, and a later call with X and a callback receives
\* that failure without a second invocation
C11_Witness ==
    /\ variant = "nMemorize" /\ Count("refresh") = 0 /\ Count("invoke") = 1
    /\ \E q \in DOMAIN log : \E p \in DOMAIN log :
          /\ CalledAgain(q, p) /\ log[p].ok
          /\ \E k \in AnswersTo(p) :
                log[k].e = "deliver" /\ ~log[k].ok /\ log[k].inv = log[q].inv

\* memorized returned a value at q, and refresh() has not been called between q
\* and p
Returned(q, p) ==
    /\ q < p /\ log[q].e = "deliver" /\ log[q].ok
    /\ \A r \in (q + 1)..(p - 1) : log[r].e # "refresh"

\* C12: for memorize, once a call with arguments X has returned a value, every
\* later call with X before a refresh() returns that value without invoking fn,
\* and until a refresh() the Map of values keeps the entry of X as it is,
\* whatever calls with other arguments are made in between.
C12_SuccessKeptUntilReset ==
    variant = "memorize" =>
        \A q \in DOMAIN log :
            /\ Returned(q, Len(log) + 1) =>
                  /\ MapHas(returns, hash(log[q].args))
                  /\ returns[hash(log[q].args)] = log[q].inv
            /\ \A p \in DOMAIN log :
                  (Returned(q, p) /\ log[p].e = "call" /\ log[p].args = log[q].args)
                  => /\ ~InvokedBy(p)
                     /\ \A k \in AnswersTo(p) : log[k].ok /\ log[k].inv = log[q].inv

\* memorize: X returns a value, fn is invoked for other arguments, and X
\* returns the same value again without a second invocation for it
C12_Witness ==
    /\ variant = "memorize" /\ Count("refresh") = 0 /\ Count("invoke") = 2
    /\ \E q \in DOMAIN log : \E p \in DOMAIN log :
          /\ Returned(q, p) /\ log[p].e = "call" /\ log[p].args = log[q].args
          /\ \E j \in (q + 1)..(p - 1) :
                log[j].e = "invoke" /\ hash(log[j].args) # hash(log[q].args)
          /\ \E k \in AnswersTo(p) : log[k].ok /\ log[k].inv = log[q].inv

\* the calls of the caller's callback made for call c
Deliveries(c) == Cardinality({k \in DOMAIN log : log[k].e = "deliver" /\ log[k].call = c})

\* call c was made through nMemorize with a callback
CalledBack(c) ==
    /\ variant = "nMemorize"
    /\ \E k \in DOMAIN log : log[k].e = "call" /\ log[k].call = c /\ log[k].ok

\* C13: every call of nMemorize's memorized that is given a callback -- a hit on
\* a cached value, a hit on a cached error or a miss -- leads to that callback
\* being called, and it is never called a second time; each call of it carries
\* an error or a value (fn is taken to call back once, as MemoLiveSpec says).
C13_CallbackExactlyOnce ==
    /\ [](\A c \in 1..MaxCalls : CalledBack(c) => Deliveries(c) <= 1)
    /\ \A c \in 1..MaxCalls : CalledBack(c) ~> (Deliveries(c) = 1)

\* three calls with a callback, each answered once: a miss that was answered
\* after a later call had been made, and a hit on a cached error
C13_Witness ==
    /\ variant = "nMemorize" /\ inflight = {}
    /\ \A c \in 1..MaxCalls : CalledBack(c) /\ Deliveries(c) = 1
    /\ \E p \in DOMAIN log :
          /\ log[p].e = "call" /\ InvokedBy(p)
          /\ \E j \in DOMAIN log : \E k \in AnswersTo(p) :
                p < j /\ j < k /\ log[j].e = "call"
    /\ \E p \in DOMAIN log :
          /\ log[p].e = "call" /\ ~InvokedBy(p)
          /\ \E k \in AnswersTo(p) : ~log[k].ok

\* the step is a call of refresh()
Refreshes == Len(log') = Len(log) + 1 /\ log'[Len(log')].e = "refresh"

\* C18: memorize's refresh() empties the Map of values and leaves the Map of
\* errors as it is; nMemorize's refresh() empties both Maps.
C18_RefreshFrame ==
    [][Refreshes =>
          /\ returns' = <<>>
          /\ variant = "memorize" => throws' = throws
          /\ variant = "nMemorize" => throws' = <<>>]_vars

\* memorize right after a refresh(): a value and an error were cached before
\* it, and the error still is
C18_Witness ==
    /\ variant = "memorize" /\ log # <<>> /\ log[Len(log)].e = "refresh"
    /\ \E q \in DOMAIN log : log[q].e = "deliver" /\ log[q].ok
    /\ \E q \in DOMAIN log : Failed(q) /\ MapHas(throws, hash(log[q].args))
    /\ returns = <<>>

\* what the memoizer answers a call of key k from: the throws Map is looked up
\* first, then the returns Map
NoEntry == [ok |-> FALSE, inv |-> 0]
Lookup(k) ==
    IF k \in DOMAIN throws THEN [ok |-> FALSE, inv |-> throws[k]]
    ELSE IF k \in DOMAIN returns THEN [ok |-> TRUE, inv |-> returns[k]]
    ELSE NoEntry

\* the places of the log where call c was answered
AnswersOf(c) == {q \in DOMAIN log : log[q].e \in {"deliver", "done"} /\ log[q].call = c}
\* the places of the log where fn was invoked for call c
InvokesOf(c) == {q \in DOMAIN log : log[q].e = "invoke" /\ log[q].call = c}

\* the calls at p1 and p2 are the two calls of their key, the second made while
\* fn had not answered the first
TwoInFlight(p1, p2) ==
    /\ p1 < p2 /\ log[p1].e = "call" /\ log[p2].e = "call"
    /\ hash(log[p1].args) = hash(log[p2].args)
    /\ \A p \in DOMAIN log :
          (log[p].e = "call" /\ hash(log[p].args) = hash(log[p1].args)) => p \in {p1, p2}
    /\ \A q \in AnswersOf(log[p1].call) : q > p2

\* C21: nMemorize, no reset: of two calls of the same key, the second made before
\* fn has answered the first, both invoke fn, the callback of each receives the
\* result of its own invocation, and once both are answered the cache answers
\* the key with the result that was written last.
C21_LastWriteWins ==
    (variant = "nMemorize" /\ Count("refresh") = 0) =>
        \A p1, p2 \in DOMAIN log :
            TwoInFlight(p1, p2) =>
                LET c1 == log[p1].call
                    c2 == log[p2].call
                    done == AnswersOf(c1) \cup AnswersOf(c2)
                    latest == CHOOSE q \in done : \A r \in done : r <= q
                IN /\ Cardinality(InvokesOf(c1)) = 1 /\ Cardinality(InvokesOf(c2)) = 1
                   /\ \A c \in {c1, c2} : \A q \in AnswersOf(c) :
                         \E i \in InvokesOf(c) : log[q].inv = log[i].inv
                   /\ (AnswersOf(c1) # {} /\ AnswersOf(c2) # {}) =>
                         Lookup(hash(log[p1].args)) =
                             [ok |-> log[latest].ok, inv |-> log[latest].inv]

\* C26: over the steps of a run whose objective is memoized, the objective
\* itself is invoked at most once for each vertex value, whatever number of
\* times nm asks for the weight of that vertex.
C26_ObjectiveOncePerVertex ==
    variant = "memorize" =>
        \A k1, k2 \in DOMAIN log :
            (/\ log[k1].e = "invoke" /\ log[k2].e = "invoke"
             /\ log[k1].args = log[k2].args) => k1 = k2

\* the second step of a run is given a vertex the first step weighed: the
\* objective was invoked for it in the first step only
C26_Witness ==
    /\ variant = "memorize" /\ steps = 2 /\ Stepped
    /\ \E v \in Range(last.input) :
          \E k \in DOMAIN log : log[k].args = v /\ log[k].call = 1
    /\ \E k \in DOMAIN log : log[k].call = 2

\* C27: memorize: whatever calls and resets were made, no key is in the Map of
\* the returns and in the Map of the throws at once.
C27_NoKeyInBothCaches ==
    variant = "memorize" => (DOMAIN returns) \cap (DOMAIN throws) = {}

\* a key whose call returned, then, after a reset, threw: it is in throws only,
\* next to another key in returns
C27_Witness ==
    /\ variant = "memorize"
    /\ \E q, r, p \in DOMAIN log :
          /\ q < r /\ r < p
          /\ log[q].e = "deliver" /\ log[q].ok
          /\ log[r].e = "refresh"
          /\ log[p].e = "deliver" /\ ~log[p].ok
          /\ hash(log[q].args) = hash(log[p].args)
          /\ hash(log[p].args) \in DOMAIN throws
          /\ hash(log[p].args) \notin DOMAIN returns
    /\ returns # <<>>

\* --------------------------------- properties of one invocation of a step
\* an evaluation of this invocation has failed
SomeFailure == \E v \in DOMAIN oracle : oracle[v] = Thrown

\* C14: once an evaluation of the step (of an input vertex, of the mirror, of
\* the expansion or of the contraction) has failed, the caller of nm, of nmAsync
\* or of nmCallback has received a failure, every failure it receives is one of
\* the evaluator's for a point of this step, and it receives no simplex.
C14_FailureSurfaces ==
    SomeFailure =>
        /\ delivered # <<>>
        /\ \A k \in DOMAIN delivered :
              /\ delivered[k].error
              /\ delivered[k].vertices = <<>>
              /\ delivered[k].of \in DOMAIN oracle
              /\ oracle[delivered[k].of] = Thrown

\* nmCallback: the weights of 3 input vertices arrived, the mirror was weighed,
\* and the evaluation of the contraction failed
C14_Witness ==
    /\ adapter = "nmCallback" /\ pc = "settled" /\ Len(vertices) = 3
    /\ Len(asked) = 2 /\ oracle[asked[1]] # Thrown
    /\ asked[2] = Contraction(CentroidA, WorstA, params.r)
    /\ delivered = <<Rejected(asked[2])>>

\* every input vertex of the invocation has been weighed
InputsWeighed ==
    /\ Range(vertices) \subseteq DOMAIN oracle
    /\ \A v \in Range(vertices) : oracle[v] # Thrown

\* the points of the step on the input, from the rule of the method
SortedNow == SortByWeight(vertices, oracle)
BestNow == SortedNow[1]
WorserNow == SortedNow[Len(vertices) - 1]
WorstNow == SortedNow[Len(vertices)]
CentroidNow == MeanOf(SubSeq(SortedNow, 1, Len(vertices) - 1))
MirrorNow == Along(CentroidNow, params.a, CentroidNow, WorstNow)
ExpansionNow == Along(CentroidNow, params.g, MirrorNow, CentroidNow)
ContractionNow == Along(CentroidNow, params.r, WorstNow, CentroidNow)
ShrunkNow == [i \in 1..Len(vertices) |->
                IF i = 1 THEN BestNow ELSE Along(BestNow, params.s, SortedNow[i], BestNow)]
MirrorAccepted ==
    oracle[BestNow] <= oracle[MirrorNow] /\ oracle[MirrorNow] <= oracle[WorserNow]

\* the invocation has given its caller a simplex
SimplexDelivered == \E k \in DOMAIN delivered : ~delivered[k].error

\* C19 as claimed: a step that gives a simplex has asked, after the weights of
\* the input vertices, for the mirror and then for exactly one of the expansion
\* and the contraction, never for neither.
C19_MirrorThenExactlyOne ==
    SimplexDelivered =>
        /\ InputsWeighed
        /\ Len(asked) = 2
        /\ asked[1] = MirrorNow
        /\ asked[2] \in {ExpansionNow, ContractionNow}

\* C19 as the code has it: after the weights of the input vertices the step asks
\* for the mirror first, and then for at most one more point: for none when the
\* mirror is accepted, for the expansion when the mirror is lighter than best,
\* for the contraction otherwise; nothing else is evaluated, the vertices of a
\* shrink included.
C19_MirrorThenAtMostOne ==
    /\ DOMAIN oracle \subseteq Range(vertices) \cup Range(asked)
    /\ asked # <<>> =>
          /\ InputsWeighed
          /\ asked[1] = MirrorNow
          /\ Len(asked) <= 2
          /\ Len(asked) = 2 =>
                /\ MirrorNow \in DOMAIN oracle /\ oracle[MirrorNow] # Thrown
                /\ ~MirrorAccepted
                /\ asked[2] = IF oracle[MirrorNow] < oracle[BestNow]
                              THEN ExpansionNow ELSE ContractionNow
    /\ SimplexDelivered =>
          /\ asked # <<>> /\ MirrorNow \in DOMAIN oracle
          /\ Len(asked) = 1 <=> MirrorAccepted

\* nmCallback gives the shrink of 3 vertices: the mirror and the contraction
\* were asked for, and a vertex of the shrink has never been evaluated
C19_Witness ==
    /\ adapter = "nmCallback" /\ pc = "settled" /\ Len(vertices) = 3
    /\ InputsWeighed /\ asked = <<MirrorNow, ContractionNow>>
    /\ delivered = <<Resolved(ShrunkNow)>>
    /\ \E i \in 1..3 : ShrunkNow[i] \notin DOMAIN oracle

\* the adapters that do not wait for one weight before asking for the next
FansOut == adapter \in {"nmAsync", "nmCallback"}

\* every input vertex has answered with a weight, the one the objective gave
AllWeighed ==
    /\ DOMAIN weights = DOMAIN vertices
    /\ \A i \in DOMAIN vertices :
          /\ vertices[i] \in DOMAIN oracle /\ oracle[vertices[i]] # Thrown
          /\ weights[i] = oracle[vertices[i]]

\* C20: nmAsync and nmCallback have asked for the weight of every one of the N+1
\* input vertices before any of them answers, the answers come in any order, and
\* the step goes on to ask for the mirror exactly when the last of the N+1 has
\* answered with a weight: once, and never when one of them failed.
C20_FanOutThenJoin ==
    FansOut =>
        /\ pc # "idle" => requested = DOMAIN vertices
        /\ pending \subseteq requested
        /\ DOMAIN weights \subseteq requested \ pending
        /\ joins <= 1
        /\ joins = 1 <=> asked # <<>>
        /\ joins = 1 <=> DOMAIN weights = DOMAIN vertices
        /\ asked # <<>> => AllWeighed /\ pending = {}

\* nmAsync with 3 input vertices whose weights came out of the order of the
\* requests has gone on to the mirror
C20_Witness ==
    /\ adapter = "nmAsync" /\ Len(vertices) = 3 /\ requested = {1, 2, 3}
    /\ reordered /\ joins = 1 /\ AllWeighed /\ asked = <<MirrorNow>>

\* nothing of the invocation is left to answer
Quiet == pc # "idle" /\ pending = {} /\ pc \notin {"mirror", "expansion", "contraction"}

\* C24: nmCallback calls its completion callback at most once, once when the
\* evaluator has answered every request, and each time with an error and no
\* simplex or with a simplex and no error.
C24_CallbackOncePerInvocation ==
    adapter = "nmCallback" =>
        /\ Len(delivered) <= 1
        /\ Quiet => Len(delivered) = 1
        /\ \A k \in DOMAIN delivered :
              IF delivered[k].error
              THEN delivered[k].vertices = <<>>
              ELSE delivered[k].of = <<>> /\ Len(delivered[k].vertices) = Len(vertices)

\* ------------------------------------------- properties of the call's arrays
\* the places of the returned array whose vertex was made by the call
Fresh == {i \in DOMAIN arrayHeap[result] : arrayHeap[result][i] \notin DOMAIN atCall.vertices}

\* C22: after the call, returned or thrown, the array the caller passed has the
\* elements it had, in the order it had them, and every vertex that was there
\* has the coordinates it had; the array returned is another array, and the
\* vertices in it that are not vertices of the input (one after a replacement,
\* all but best after a shrink) were made by the call.
C22_InputNotModified ==
    steps = 1 =>
        /\ arrayHeap[argument] = atCall.arrays[argument]
        /\ \A v \in DOMAIN atCall.vertices : vertexHeap[v] = atCall.vertices[v]
        /\ result # 0 =>
              /\ result # argument
              /\ \A i \in DOMAIN arrayHeap[result] :
                    i \notin Fresh => arrayHeap[result][i] \in Range(atCall.arrays[argument])
              /\ Cardinality(Fresh) =
                    IF last.out.branch = "shrink" THEN Len(arrayHeap[argument]) - 1 ELSE 1

\* a call on 3 vertices passed out of order returns a shrink: best and two
\* vertices made by the call
C22_Witness ==
    /\ steps = 1 /\ Len(arrayHeap[argument]) = 3
    /\ oracle[vertexHeap[1]] > oracle[vertexHeap[2]]
    /\ result # 0 /\ last.out.branch = "shrink" /\ Cardinality(Fresh) = 2

StepOf(vs) ==
    IF /\ vs # <<>>
       /\ Range(vs) \subseteq DOMAIN oracle
       /\ \A v \in Range(vs) : oracle[v] # Thrown
       /\ Probes(vs, oracle, params) \subseteq DOMAIN oracle
    THEN LET out == nm(vs, oracle, params)
         IN IF out.status = "returned" THEN out.vertices ELSE <<>>
    ELSE <<>>

\* k successive applications of the step to the simplex the generator got
RECURSIVE Iterate(_)
Iterate(k) == IF k = 0 THEN start ELSE StepOf(Iterate(k - 1))

Point(x) == <<Rat(x, 1)>>

\* C17: on the vertices [[0], [10]], with weight(v) = v[0]^2 and the default
\* a, g, r, s, one step has centroid [0] and mirror [-10], measures the mirror
\* and then the contraction [5], whose weight 25 is below the 100 of the worst
\* vertex, and returns [[0], [5]].
C17_ZeroTenToZeroFive ==
    (Stepped /\ last.input = <<Point(0), Point(10)>> /\ params = DefaultParams) =>
        /\ CentroidIn = Point(0)
        /\ MirrorIn = Point(0 - 10)
        /\ last.out.branch = "contraction"
        /\ last.out.asked = <<Point(0 - 10), Point(5)>>
        /\ oracle[Point(5)] = 25 /\ oracle[Point(10)] = 100
        /\ last.out.vertices = <<Point(0), Point(5)>>

\* the step on [[0], [10]] has been made
C17_Witness ==
    /\ steps = 1 /\ Stepped
    /\ last.input = <<Point(0), Point(10)>>
    /\ oracle = SquareOn({Point(0), Point(10), Point(0 - 10), Point(5)})
    /\ vertices = <<Point(0), Point(5)>>

=============================================================================
